---- MODULE Spec2Model ----
(***************************************************************************)
(* Pebbles-Calendar: the pebble generator, the shelf layout, the packer    *)
(* (PebbleCollection.move_to_shelves) and the staged renderer              *)
(* (PebbleImage.draw_at_stage) of src/pebble_classes.py, and the document  *)
(* assembly loop of src/main.py.                                           *)
(*                                                                         *)
(* Lengths are integers in 1/1000 pt (2.4 pt is 2400), factors are in      *)
(* 1/1000 (0.7 is 700), radii are whole points as randint returns them, so *)
(* radius * factor is again a length in 1/1000 pt.  What the float cos and *)
(* sin of the angles pi/2, pi and 3pi/2 add to a zero point is kept beside *)
(* it, in 1e-20 pt; it never reaches the extremes min and max read, and is *)
(* below the rounding of center + zero point.                              *)
(***************************************************************************)
EXTENDS Integers, Sequences, FiniteSets, TLC

----------------------------------------------------------------------------
(* Bounds of the model *)

MaxPebbles == 4
MaxShelves == 2
MaxPerShelf == 3
MaxMoves == 1
MaxLines == 4

----------------------------------------------------------------------------
(* Module constants, pebble_classes.py lines 4-23 *)

RADIUS_X_RANGE == <<20, 36>>
RADIUS_Y_RANGE == <<12, 20>>
K_ADD_RANGE == <<-50, 70>>
RANDOMIZE_POSITION_RANGE == <<700, 1300>>
RANDOM_CMYK_GREY_RANGE == <<100, 900>>

PEBBLES_PER_SHELF == 3
PEBBLES_ON_SHELF_GAP == 10000
NUMBER_OF_SHELVES == 4
SHELVES_VERTICAL_SPACING == 72000
SHELF_WIDTH == 264000
SHELF_HEIGHT == 2400

LINES_SPACING == 24000
LINES_LINE_WIDTH == 600
LINES_DASH == <<6000, 12000>>

LINES_START_POINT == <<0, 0>>
LINES_END_POINT == <<480000, 408000>>
SHELVES_LOWER_LEFT_POINT == <<LINES_START_POINT[1] + 36000, LINES_START_POINT[2] + 46800>>

\* None, for an optional argument that was not given
None == <<>>

\* self.k of a Pebble: 0.5522847498, in 1/1000
Pebble_k == 552

\* self.angles of a Pebble, as quarter turns: 0, pi/2, pi, 3pi/2
Pebble_angles == <<0, 1, 2, 3>>

\* cos and sin of a quarter-turn angle (the float residues of cos(pi/2),
\* sin(pi), cos(3pi/2), of order 1e-16, are below the unit of length)
cos(q) == <<1, 0, -1, 0>>[q + 1]
sin(q) == <<0, 1, 0, -1>>[q + 1]

\* what the float cos and sin of the four float angles of line 153 add to
\* the values above, in 1e-20: cos(1.5707963267948966) is 6.123e-17, not 0
cos_residue_None(q) == 0
cos_residue(q) == <<0, 6123, 0, -18370>>[q + 1]
sin_residue(q) == <<0, 0, 12246, 0>>[q + 1]

add_points_elements(point1, point2) == <<point1[1] + point2[1], point1[2] + point2[2]>>

----------------------------------------------------------------------------
(* Python sequence semantics *)

Min2(a, b) == IF a <= b THEN a ELSE b
Max2(a, b) == IF a >= b THEN a ELSE b

\* min(list) and max(list) of a non-empty list of numbers
min(s) == CHOOSE v \in {s[i] : i \in 1..Len(s)} : \A j \in 1..Len(s) : v <= s[j]
max(s) == CHOOSE v \in {s[i] : i \in 1..Len(s)} : \A j \in 1..Len(s) : v >= s[j]

\* lst[k] raises IndexError unless -len <= k < len
IndexInRange(lst, k) == -Len(lst) <= k /\ k < Len(lst)
\* lst[k] for a 0-based, possibly negative, index that is in range
ListItem(lst, k) == IF k >= 0 THEN lst[k + 1] ELSE lst[Len(lst) + k + 1]

\* lst[:num]
SliceTo_OneMore(lst, num) == SubSeq(lst, 1, Min2(Max2(num + 1, 0), Len(lst)))
SliceTo_ClampedAtZero(lst, num) == SubSeq(lst, 1, Min2(Max2(num, 0), Len(lst)))
SliceTo(lst, num) ==
    LET stop == IF num < 0 THEN Max2(Len(lst) + num, 0) ELSE Min2(num, Len(lst))
    IN  SubSeq(lst, 1, stop)

----------------------------------------------------------------------------
(* The random source: the module random, seeded once (main.py 33-34); a    *)
(* full-period generator over 16 states stands for the Mersenne Twister.   *)

Seeds == {0, 5}

random_next(r) == (5 * r + 3) % 16

\* the state after k draws; every draw reads the state, which is never
\* negative
RECURSIVE random_skip(_, _)
random_skip(r, k) == IF k = 0 \/ r < 0 THEN r ELSE random_skip(random_next(r), k - 1)

\* uniform(a, b) = a + (b - a) * random(), random() = r / 16 in [0, 1)
uniform(a, b, r) == a + ((b - a) * r) \div 16
\* randint(a, b) = a + randbelow(b - a + 1)
randint(a, b, r) == a + (r * (b - a + 1)) \div 16

----------------------------------------------------------------------------
(* Shelf and Shelves *)

Shelf__init__(start_point, shelf_width, shelf_height, cmyk_color) ==
    [shelf_width |-> shelf_width, shelf_height |-> shelf_height,
     cmyk_color |-> cmyk_color,
     start_x |-> start_point[1], start_y |-> start_point[2]]

upper_left_point_NoHeight(shelf) == <<shelf.start_x, shelf.start_y>>
upper_left_point(shelf) == <<shelf.start_x, shelf.start_y + shelf.shelf_height>>

\* the loop of Shelves.__init__: k shelves still to append, new_y the running y
RECURSIVE Shelves_loop_StepFirst(_, _, _, _, _)
Shelves_loop_StepFirst(k, bottom_start_x, new_y, spacing, all_shelves) ==
    IF k <= 0 THEN all_shelves
    ELSE Shelves_loop_StepFirst(k - 1, bottom_start_x, new_y + spacing, spacing,
                      Append(all_shelves,
                             Shelf__init__(<<bottom_start_x, new_y + spacing>>, SHELF_WIDTH,
                                           SHELF_HEIGHT, <<0, 0, 0, 1000>>)))
RECURSIVE Shelves_loop(_, _, _, _, _)
Shelves_loop(k, bottom_start_x, new_y, spacing, all_shelves) ==
    IF k <= 0 THEN all_shelves
    ELSE Shelves_loop(k - 1, bottom_start_x, new_y + spacing, spacing,
                      Append(all_shelves,
                             Shelf__init__(<<bottom_start_x, new_y>>, SHELF_WIDTH,
                                           SHELF_HEIGHT, <<0, 0, 0, 1000>>)))

Shelves__init__(bottom_start, n, spacing) ==
    [bottom_start_x |-> bottom_start[1], bottom_start_y |-> bottom_start[2],
     n |-> n, spacing |-> spacing,
     all_shelves |-> Shelves_loop(n, bottom_start[1], bottom_start[2], spacing, <<>>)]

----------------------------------------------------------------------------
(* Pebble *)

random_xy_displace_scale(randomize_zero_points_by, r) ==
    uniform(randomize_zero_points_by[1], randomize_zero_points_by[2], r)

\* the loop of get_zero_points from its i-th angle on.  zero_for_rand is the
\* list built so far; residues holds, for each of its points, what the
\* float residue of cos and sin adds to it, in 1e-20 pt; scales lists the
\* values random_xy_displace_scale returned, in call order.
RECURSIVE get_zero_points_loop_OneScale(_, _, _, _, _, _)
get_zero_points_loop_OneScale(i, rx, ry, randomize_zero_points_by, r, acc) ==
    IF i > Len(Pebble_angles) THEN acc
    ELSE LET point_ang == Pebble_angles[i]
             s == random_xy_displace_scale(randomize_zero_points_by, r)
         IN  get_zero_points_loop_OneScale(i + 1, rx, ry, randomize_zero_points_by,
                 random_next(r),
                 [zero_for_rand |-> Append(acc.zero_for_rand,
                                           <<rx * cos(point_ang) * s, ry * sin(point_ang) * s>>),
                  residues |-> Append(acc.residues,
                                      <<(rx * cos_residue(point_ang) * s) \div 1000,
                                        (ry * sin_residue(point_ang) * s) \div 1000>>),
                  scales |-> Append(acc.scales, s)])
RECURSIVE get_zero_points_loop(_, _, _, _, _, _)
get_zero_points_loop(i, rx, ry, randomize_zero_points_by, r, acc) ==
    IF i > Len(Pebble_angles) THEN acc
    ELSE LET point_ang == Pebble_angles[i]
             scale_x == random_xy_displace_scale(randomize_zero_points_by, r)
             scale_y == random_xy_displace_scale(randomize_zero_points_by, random_next(r))
         IN  get_zero_points_loop(i + 1, rx, ry, randomize_zero_points_by,
                 random_next(random_next(r)),
                 [zero_for_rand |-> Append(acc.zero_for_rand,
                                           <<rx * cos(point_ang) * scale_x,
                                             ry * sin(point_ang) * scale_y>>),
                  residues |-> Append(acc.residues,
                                      <<(rx * cos_residue(point_ang) * scale_x) \div 1000,
                                        (ry * sin_residue(point_ang) * scale_y) \div 1000>>),
                  scales |-> acc.scales \o <<scale_x, scale_y>>])

\* get_zero_points with all it computes on the way
zero_points_made(rx, ry, randomize_zero_points_by, r) ==
    get_zero_points_loop(1, rx, ry, randomize_zero_points_by, r,
                         [zero_for_rand |-> <<>>, residues |-> <<>>, scales |-> <<>>])

get_zero_points(rx, ry, randomize_zero_points_by, r) ==
    zero_points_made(rx, ry, randomize_zero_points_by, r).zero_for_rand

random_cmyk_grey(r) ==
    <<0, 0, 0, uniform(RANDOM_CMYK_GREY_RANGE[1], RANDOM_CMYK_GREY_RANGE[2], r)>>

\* the number of draws Pebble.__init__ takes from the random source before
\* get_zero_points: rx, ry, ran_k and, if no colour is given, the grey
Pebble_draws_before_points(a) == IF a.cmyk_color = None THEN 4 ELSE 3

\* the number of draws Pebble.__init__ takes from the random source
Pebble_draws(a) ==
    Pebble_draws_before_points(a)
        + Len(zero_points_made(0, 0, a.randomize_zero_points_by, 0).scales)

\* Pebble.__init__ with arguments a and the random source in state r
Pebble__init__(a, r) ==
    LET rx == randint(a.rx_range[1], a.rx_range[2], r)
        ry == randint(a.ry_range[1], a.ry_range[2], random_skip(r, 1))
        ran_k == Pebble_k + uniform(a.k_add[1], a.k_add[2], random_skip(r, 2))
        cmyk == IF a.cmyk_color = None THEN random_cmyk_grey(random_skip(r, 3))
                ELSE a.cmyk_color
        r_points == random_skip(r, Pebble_draws_before_points(a))
    IN  [k |-> Pebble_k, angles |-> Pebble_angles,
         center_coordinates |-> a.center_coordinates,
         k_add |-> a.k_add, rx_range |-> a.rx_range, ry_range |-> a.ry_range,
         rx |-> rx, ry |-> ry, ran_k |-> ran_k,
         randomize_zero_points_by |-> a.randomize_zero_points_by,
         cmyk_color |-> cmyk,
         zero_points |-> get_zero_points(rx, ry, a.randomize_zero_points_by, r_points),
         zero_points_residue |->
             zero_points_made(rx, ry, a.randomize_zero_points_by, r_points).residues]

\* the values random_xy_displace_scale returns while Pebble.__init__ runs
Pebble_scales(a, r) ==
    zero_points_made(0, 0, a.randomize_zero_points_by,
                     random_skip(r, Pebble_draws_before_points(a))).scales

points_CenterXTwice(peb) ==
    [i \in 1..Len(peb.zero_points) |->
        <<peb.center_coordinates[1] + peb.zero_points[i][1],
          peb.center_coordinates[1] + peb.zero_points[i][2]>>]
points(peb) ==
    [i \in 1..Len(peb.zero_points) |->
        <<peb.center_coordinates[1] + peb.zero_points[i][1],
          peb.center_coordinates[2] + peb.zero_points[i][2]>>]

center_distances_OfPoints(peb) ==
    <<min([i \in 1..Len(peb.zero_points) |-> points(peb)[i][1]]),
      min([i \in 1..Len(peb.zero_points) |-> points(peb)[i][2]]),
      max([i \in 1..Len(peb.zero_points) |-> points(peb)[i][1]]),
      max([i \in 1..Len(peb.zero_points) |-> points(peb)[i][2]])>>
center_distances(peb) ==
    <<min([i \in 1..Len(peb.zero_points) |-> peb.zero_points[i][1]]),
      min([i \in 1..Len(peb.zero_points) |-> peb.zero_points[i][2]]),
      max([i \in 1..Len(peb.zero_points) |-> peb.zero_points[i][1]]),
      max([i \in 1..Len(peb.zero_points) |-> peb.zero_points[i][2]])>>

measures(peb) ==
    <<max([i \in 1..Len(peb.zero_points) |-> peb.zero_points[i][1]])
        - min([i \in 1..Len(peb.zero_points) |-> peb.zero_points[i][1]]),
      max([i \in 1..Len(peb.zero_points) |-> peb.zero_points[i][2]])
        - min([i \in 1..Len(peb.zero_points) |-> peb.zero_points[i][2]])>>

Pebble_move_Translate(peb, new_pos) ==
    [peb EXCEPT !.center_coordinates = new_pos,
                !.zero_points = [i \in 1..Len(peb.zero_points) |->
                                    <<new_pos[1] + peb.zero_points[i][1],
                                      new_pos[2] + peb.zero_points[i][2]>>]]
Pebble_move(peb, new_pos) == [peb EXCEPT !.center_coordinates = new_pos]

----------------------------------------------------------------------------
(* PebbleCollection *)

\* the loop of PebbleCollection.__init__: k pebbles still to create
RECURSIVE PebbleCollection_loop_OneMore(_, _, _, _)
PebbleCollection_loop_OneMore(k, a, r, all_pebbles) ==
    IF k < 0 THEN [all_pebbles |-> all_pebbles, rng |-> r]
    ELSE PebbleCollection_loop_OneMore(k - 1, a, random_skip(r, Pebble_draws(a)),
                                       Append(all_pebbles, Pebble__init__(a, r)))
RECURSIVE PebbleCollection_loop(_, _, _, _)
PebbleCollection_loop(k, a, r, all_pebbles) ==
    IF k <= 0 THEN [all_pebbles |-> all_pebbles, rng |-> r]
    ELSE PebbleCollection_loop(k - 1, a, random_skip(r, Pebble_draws(a)),
                               Append(all_pebbles, Pebble__init__(a, r)))

\* move_to_shelves: the index of the shelf of the pebble with index peb_num
ShelfIndex_Modulo(peb_num, pps) == peb_num % pps
ShelfIndex_OffByOne(peb_num, pps) == (peb_num + 1) \div pps
ShelfIndex(peb_num, pps) == peb_num \div pps

\* move_to_shelves: new_pos of pebble peb on shelf, with the running shift
NewPos_Relative(sh, shelf, peb) ==
    <<peb.center_coordinates[1] + sh + upper_left_point(shelf)[1] - center_distances(peb)[1],
      peb.center_coordinates[2] + upper_left_point(shelf)[2] - center_distances(peb)[2]>>
NewPos(sh, shelf, peb) ==
    <<sh + upper_left_point(shelf)[1] - center_distances(peb)[1],
      upper_left_point(shelf)[2] - center_distances(peb)[2]>>

\* move_to_shelves: peb.move(new_pos) on the pebble enumerate gave as peb_num
MoveInPlace_FromHere(pebs, peb_num, new_pos) ==
    [i \in 1..Len(pebs) |-> IF i > peb_num THEN Pebble_move(pebs[i], new_pos) ELSE pebs[i]]
MoveInPlace(pebs, peb_num, new_pos) ==
    [pebs EXCEPT ![peb_num + 1] = Pebble_move(pebs[peb_num + 1], new_pos)]

\* move_to_shelves: the shift after the pebble with index peb_num was placed
NextShift_NoReset(sh, peb_num, pps, g, peb) == sh + g + measures(peb)[1]
NextShift(sh, peb_num, pps, g, peb) ==
    IF (peb_num + 1) % pps = 0 THEN 0 ELSE sh + g + measures(peb)[1]

----------------------------------------------------------------------------
(* The canvas: the calls a draw method makes on it, in order.  src and idx  *)
(* name the object that made the call (idx is 0-based, as enumerate gives). *)

CanvasOp(op, args, src, idx) == [op |-> op, args |-> args, src |-> src, idx |-> idx]

\* Shelf.draw
Shelf_draw(shelf, idx) ==
    <<CanvasOp("setFillColorCMYK", shelf.cmyk_color, "shelf", idx),
      CanvasOp("rect", <<shelf.start_x, shelf.start_y, shelf.shelf_width,
                         shelf.shelf_height, 1, 0>>, "shelf", idx)>>

\* Shelves.draw: every shelf, in order
RECURSIVE Shelves_draw_from(_, _)
Shelves_draw_from(all_shelves, i) ==
    IF i > Len(all_shelves) THEN <<>>
    ELSE Shelf_draw(all_shelves[i], i - 1) \o Shelves_draw_from(all_shelves, i + 1)

Shelves_draw(shelves) == Shelves_draw_from(shelves.all_shelves, 1)

\* Pebble.curve_controls: the control pair of the edge from corner i to i + 1
curve_controls(peb) ==
    [i \in 1..Len(peb.angles) |->
        LET angle1 == peb.angles[i]
            angle2 == peb.angles[(i % Len(peb.angles)) + 1]
            start == points(peb)[i]
            end == points(peb)[(i % Len(peb.angles)) + 1]
        IN  <<start[1] + (-sin(angle1) * peb.ran_k * peb.rx),
              start[2] + (cos(angle1) * peb.ran_k * peb.ry),
              end[1] + (sin(angle2) * peb.ran_k * peb.rx),
              end[2] - (cos(angle2) * peb.ran_k * peb.ry)>>]

\* Pebble.draw: the loop over i = 0..3, moveTo only when i = 0
RECURSIVE Pebble_draw_from_SameCorner(_, _, _)
Pebble_draw_from_SameCorner(peb, idx, i) ==
    IF i >= 4 THEN <<>>
    ELSE (IF i = 0 THEN <<CanvasOp("moveTo", points(peb)[1], "pebble", idx)>> ELSE <<>>)
         \o <<CanvasOp("curveTo", curve_controls(peb)[i + 1] \o points(peb)[i + 1],
                       "pebble", idx)>>
         \o Pebble_draw_from_SameCorner(peb, idx, i + 1)
RECURSIVE Pebble_draw_from(_, _, _)
Pebble_draw_from(peb, idx, i) ==
    IF i >= 4 THEN <<>>
    ELSE (IF i = 0 THEN <<CanvasOp("moveTo", points(peb)[1], "pebble", idx)>> ELSE <<>>)
         \o <<CanvasOp("curveTo", curve_controls(peb)[i + 1] \o points(peb)[((i + 1) % 4) + 1],
                       "pebble", idx)>>
         \o Pebble_draw_from(peb, idx, i + 1)

Pebble_draw(peb, idx) ==
    <<CanvasOp("beginPath", <<>>, "pebble", idx),
      CanvasOp("setFillColorCMYK", peb.cmyk_color, "pebble", idx)>>
    \o Pebble_draw_from(peb, idx, 0)
    \o <<CanvasOp("drawPath", <<1, 0>>, "pebble", idx)>>

\* PebbleImage.num_of_stages
num_of_stages(pebs) == Len(pebs)

\* PebbleCollection.draw: the pebbles of all_pebbles[:num_to_draw], in order
RECURSIVE Pebbles_draw_from(_, _)
Pebbles_draw_from(pebs, i) ==
    IF i > Len(pebs) THEN <<>>
    ELSE Pebble_draw(pebs[i], i - 1) \o Pebbles_draw_from(pebs, i + 1)

PebbleCollection_draw_All(pebs, num_to_draw) == Pebbles_draw_from(pebs, 1)
PebbleCollection_draw(pebs, num_to_draw) == Pebbles_draw_from(SliceTo(pebs, num_to_draw), 1)

\* Lines
Lines__init__(start_point, end_point, spacing, vertical) ==
    [start_x |-> start_point[1], start_y |-> start_point[2],
     end_x |-> end_point[1], end_y |-> end_point[2],
     spacing |-> spacing, vertical |-> vertical,
     cmyk_color |-> <<0, 1000, 0, 0>>, line_width |-> LINES_LINE_WIDTH, dash |-> LINES_DASH]

\* the while loop of Lines.draw, from position new (x if vertical, else y)
RECURSIVE Lines_loop(_, _, _)
Lines_loop(lines, new, idx) ==
    IF lines.vertical
    THEN IF new <= lines.end_x
         THEN <<CanvasOp("line", <<new, lines.start_y, new, lines.end_y>>, "lines", idx)>>
              \o Lines_loop(lines, new + lines.spacing, idx + 1)
         ELSE <<>>
    ELSE IF new <= lines.end_y
         THEN <<CanvasOp("line", <<lines.start_x, new, lines.end_x, new>>, "lines", idx)>>
              \o Lines_loop(lines, new + lines.spacing, idx + 1)
         ELSE <<>>

Lines_draw(lines) ==
    <<CanvasOp("setFillColorCMYK", lines.cmyk_color, "lines", 0),
      CanvasOp("setLineWidth", <<lines.line_width>>, "lines", 0),
      CanvasOp("setDash", lines.dash, "lines", 0)>>
    \o Lines_loop(lines, IF lines.vertical THEN lines.start_x ELSE lines.start_y, 0)
    \o <<CanvasOp("setDash", <<>>, "lines", 0)>>

\* Lines.draw step by step: the calls before the loop, the loop test, the
\* call of one iteration and the call after the loop
Lines_draw_setup(lines) ==
    <<CanvasOp("setFillColorCMYK", lines.cmyk_color, "lines", 0),
      CanvasOp("setLineWidth", <<lines.line_width>>, "lines", 0),
      CanvasOp("setDash", lines.dash, "lines", 0)>>

Lines_start(lines) == IF lines.vertical THEN lines.start_x ELSE lines.start_y

Lines_end(lines) == IF lines.vertical THEN lines.end_x ELSE lines.end_y

Lines_while_Strict(lines, new) == new < Lines_end(lines)

Lines_while(lines, new) == new <= Lines_end(lines)

Lines_line(lines, new, idx) ==
    IF lines.vertical
    THEN CanvasOp("line", <<new, lines.start_y, new, lines.end_y>>, "lines", idx)
    ELSE CanvasOp("line", <<lines.start_x, new, lines.end_x, new>>, "lines", idx)

Lines_draw_reset == CanvasOp("setDash", <<>>, "lines", 0)

\* PebbleImage.draw_at_stage: the background lines, the shelves, the pebbles
draw_at_stage_ShelvesLast(lines, shelves, pebs, image_stage) ==
    Lines_draw(lines) \o PebbleCollection_draw(pebs, image_stage) \o Shelves_draw(shelves)
draw_at_stage(lines, shelves, pebs, image_stage) ==
    Lines_draw(lines) \o Shelves_draw(shelves) \o PebbleCollection_draw(pebs, image_stage)

----------------------------------------------------------------------------
(* Inputs *)

BottomStarts == {SHELVES_LOWER_LEFT_POINT}
Spacings == {SHELVES_VERTICAL_SPACING, 30000}
Gaps == {PEBBLES_ON_SHELF_GAP, 0}
MovePositions == {<<100000, 50000>>}
\* the far corner of a small background: 3 vertical or 2 horizontal lines
SmallEndPoint == <<48000, 40800>>

\* the arguments PebbleCollection passes on to Pebble: the defaults, and
\* degenerate ranges that give identical pebbles of measures (10, 10)
DefaultPebbleArgs ==
    [center_coordinates |-> <<0, 0>>, cmyk_color |-> None,
     randomize_zero_points_by |-> RANDOMIZE_POSITION_RANGE,
     rx_range |-> RADIUS_X_RANGE, ry_range |-> RADIUS_Y_RANGE, k_add |-> K_ADD_RANGE]
FixedPebbleArgs ==
    [center_coordinates |-> <<0, 0>>, cmyk_color |-> <<0, 0, 0, 500>>,
     randomize_zero_points_by |-> <<1000, 1000>>,
     rx_range |-> <<5, 5>>, ry_range |-> <<5, 5>>, k_add |-> <<0, 0>>]
PebbleArgs == {DefaultPebbleArgs, FixedPebbleArgs}
\* the generator without any spread: radii 20 and 12, factors 1.0
ExactPebbleArgs ==
    [center_coordinates |-> <<0, 0>>, cmyk_color |-> None,
     randomize_zero_points_by |-> <<1000, 1000>>,
     rx_range |-> <<20, 20>>, ry_range |-> <<12, 12>>, k_add |-> <<0, 0>>]
GeneratorArgs == {DefaultPebbleArgs, FixedPebbleArgs, ExactPebbleArgs}

\* main.py: the lower left point of the image on the A4 page, the number of
\* months of my_calendar, the seeds, and how enumerate(months, 1) counts
IMAGE_LOWER_LEFT_POINT == <<57638, 110000>>
MONTHS == 12
MainSeeds == 0..15
enumerate_stage_FromZero(month) == month
enumerate_stage(month) == month + 1
\* PebbleImage.__init__: the number of pebbles of the image
PebbleImage_pebbles == 12

\* Lines objects: one start point; spacings negative, zero, the default and
\* one and a half of it; end points at most MaxLines - 1 default spacings
\* after the start, so that no loop with a positive spacing needs more than
\* MaxLines iterations: on a line, between two lines, at the start, before it
LinesStartPoint == <<12000, 6000>>
LinesSpacings == {-LINES_SPACING, 0, LINES_SPACING, 36000}
LinesEndPoints ==
    {<<LinesStartPoint[1] + LINES_SPACING * (MaxLines - 1),
       LinesStartPoint[2] + LINES_SPACING * (MaxLines - 1) - 14000>>,
     <<LinesStartPoint[1] - 12000, LinesStartPoint[2]>>}

----------------------------------------------------------------------------
(* State *)

VARIABLES
    pc,                \* where the program is
    rng,               \* the state of the random source
    image_shelves,     \* the Shelves object, None before it is built
    all_pebbles,       \* PebbleCollection.all_pebbles
    image_background_lines, \* the Lines object, None before it is built
    pebbles_per_shelf, \* move_to_shelves: its argument
    gap,               \* move_to_shelves: its argument
    shift,             \* move_to_shelves: its local
    peb_num,           \* move_to_shelves: the loop index
    placed,            \* history: what each iteration of the last run used
    centers_before,    \* history: the centers when the run in progress was called
    rerun,             \* history: the run in progress was called right after a
                       \* complete run with the same arguments
    packed,            \* history: the last change of a center was a complete run
    moves,             \* history: the number of direct Pebble.move calls
    last_page,         \* the last draw_at_stage call: <<>> or <<[stage, ops]>>
    first_page,        \* history: the first draw_at_stage call since the pebbles
                       \* were last changed, <<>> or <<[stage, ops]>>
    interleaved,       \* history: another stage was drawn after first_page
    scales,            \* history: what random_xy_displace_scale returned to the
                       \* last Pebble built, in call order
    document,          \* main.py: the pages of cal_canvas, the last one open
    main_month,        \* main.py: the 0-based index in my_calendar.months of the
                       \* month the loop is at
    main_image_stage,  \* main.py: the loop variable image_stage
    new_xy             \* Lines.draw: the loop variable, new_x if the lines are
                       \* vertical and new_y if not

layout == <<pc, rng, image_shelves, all_pebbles, image_background_lines>>
frame == <<pebbles_per_shelf, gap, shift, peb_num, placed, packed, centers_before, rerun>>
pages == <<last_page, first_page, interleaved>>
main == <<document, main_month, main_image_stage>>
vars == <<layout, frame, moves, pages, scales, main, new_xy>>

\* the state when the random source has been seeded with one of seeds
Seeded(seeds) ==
    /\ pc = "start"
    /\ rng \in seeds
    /\ image_shelves = None
    /\ all_pebbles = <<>>
    /\ image_background_lines = None
    /\ pebbles_per_shelf = 0
    /\ gap = 0
    /\ shift = 0
    /\ peb_num = 0
    /\ placed = <<>>
    /\ packed = FALSE
    /\ moves = 0
    /\ last_page = <<>>
    /\ first_page = <<>>
    /\ interleaved = FALSE
    /\ centers_before = <<>>
    /\ rerun = FALSE
    /\ scales = <<>>
    /\ document = <<>>
    /\ main_month = 0
    /\ main_image_stage = 0
    /\ new_xy = 0

Init == Seeded(Seeds)

\* Shelves(bottom_start, n, spacing)
NewShelves(bottom_start, n, spacing) ==
    /\ pc = "start"
    /\ image_shelves' = Shelves__init__(bottom_start, n, spacing)
    /\ pc' = "shelves"
    /\ UNCHANGED <<new_xy, rng, all_pebbles, image_background_lines, frame, moves, pages,
                   scales, main>>

\* PebbleCollection(n, *args): n pebbles, each drawing from the random source
NewPebbleCollection(n, a) ==
    /\ pc = "shelves"
    /\ LET made == PebbleCollection_loop(n, a, rng, <<>>)
       IN  /\ all_pebbles' = made.all_pebbles
           /\ rng' = made.rng
    /\ scales' = IF n <= 0 THEN scales
                 ELSE Pebble_scales(a, random_skip(rng, (n - 1) * Pebble_draws(a)))
    /\ pc' = "pebbles"
    /\ UNCHANGED <<new_xy, image_shelves, image_background_lines, frame, moves, pages, main>>

\* Lines(start_point, end_point, vertical=...)
NewLines(start_point, end_point, vertical) ==
    /\ pc = "pebbles"
    /\ image_background_lines' = Lines__init__(start_point, end_point, LINES_SPACING, vertical)
    /\ pc' = "idle"
    /\ UNCHANGED <<new_xy, rng, image_shelves, all_pebbles, frame, moves, pages, scales, main>>

\* Pebble(*args), the new pebble kept at the end of all_pebbles
NewPebble(a) ==
    /\ pc = "start"
    /\ Len(all_pebbles) < MaxPebbles
    /\ all_pebbles' = Append(all_pebbles, Pebble__init__(a, rng))
    /\ rng' = random_skip(rng, Pebble_draws(a))
    /\ scales' = Pebble_scales(a, rng)
    /\ UNCHANGED <<new_xy, pc, image_shelves, image_background_lines, frame, moves, pages, main>>

\* move_to_shelves is entered: shift = 0, the loop starts at index 0
MoveToShelvesCall(pps, g) ==
    /\ pc = "idle"
    /\ pebbles_per_shelf' = pps
    /\ gap' = g
    /\ shift' = 0
    /\ peb_num' = 0
    /\ placed' = <<>>
    /\ packed' = FALSE
    /\ first_page' = <<>>
    /\ interleaved' = FALSE
    /\ centers_before' = [i \in 1..Len(all_pebbles) |-> all_pebbles[i].center_coordinates]
    /\ rerun' = (packed /\ pps = pebbles_per_shelf /\ g = gap)
    /\ pc' = "moving"
    /\ UNCHANGED <<new_xy, rng, image_shelves, all_pebbles, image_background_lines, moves, last_page,
                   scales, main>>

\* one iteration of the loop of move_to_shelves
MoveToShelvesStep ==
    /\ pc = "moving"
    /\ peb_num < Len(all_pebbles)
    /\ LET peb == all_pebbles[peb_num + 1]
           shelf_index == ShelfIndex(peb_num, pebbles_per_shelf)
       IN  IF ~IndexInRange(image_shelves.all_shelves, shelf_index)
           THEN /\ pc' = "IndexError"
                /\ UNCHANGED <<new_xy, all_pebbles, shift, peb_num, placed>>
           ELSE LET shelf == ListItem(image_shelves.all_shelves, shelf_index)
                    new_pos == NewPos(shift, shelf, peb)
                IN  /\ all_pebbles' = MoveInPlace(all_pebbles, peb_num, new_pos)
                    /\ shift' = NextShift(shift, peb_num, pebbles_per_shelf, gap, peb)
                    /\ peb_num' = peb_num + 1
                    /\ placed' = Append(placed, [peb_num |-> peb_num,
                                                 shelf_index |-> shelf_index,
                                                 shift |-> shift, new_pos |-> new_pos])
                    /\ pc' = "moving"
    /\ UNCHANGED <<new_xy, rng, image_shelves, image_background_lines, pebbles_per_shelf, gap,
                   packed, centers_before, rerun, moves, pages, scales, main>>

\* the loop of move_to_shelves is exhausted and the call returns
MoveToShelvesReturn ==
    /\ pc = "moving"
    /\ peb_num = Len(all_pebbles)
    /\ pc' = "idle"
    /\ packed' = TRUE
    /\ centers_before' = <<>>
    /\ rerun' = FALSE
    /\ UNCHANGED <<new_xy, rng, image_shelves, all_pebbles, image_background_lines,
                   pebbles_per_shelf, gap, shift, peb_num, placed, moves, pages,
                   scales, main>>

\* all_pebbles[i].move(new_pos), called from outside the packer
MovePebble(i, new_pos) ==
    /\ pc = "idle"
    /\ moves < MaxMoves
    /\ i \in 1..Len(all_pebbles)
    /\ all_pebbles' = [all_pebbles EXCEPT ![i] = Pebble_move(all_pebbles[i], new_pos)]
    /\ moves' = moves + 1
    /\ packed' = FALSE
    /\ placed' = <<>>
    /\ first_page' = <<>>
    /\ interleaved' = FALSE
    /\ UNCHANGED <<new_xy, pc, rng, image_shelves, image_background_lines, pebbles_per_shelf,
                   gap, shift, peb_num, centers_before, rerun, last_page, scales, main>>

\* the pages after draw_at_stage(canvas, image_stage) issued ops
Drawn(image_stage, ops) ==
    /\ last_page' = <<[stage |-> image_stage, ops |-> ops]>>
    /\ first_page' = IF first_page = <<>> THEN last_page' ELSE first_page
    /\ interleaved' = IF first_page = <<>> THEN FALSE
                      ELSE interleaved \/ first_page[1].stage # image_stage

\* draw_at_stage(canvas, image_stage) on a fresh page
DrawAtStage_Consuming(image_stage) ==
    /\ pc = "idle"
    /\ Drawn(image_stage, draw_at_stage(image_background_lines, image_shelves,
                                        all_pebbles, image_stage))
    /\ all_pebbles' = SubSeq(all_pebbles, Len(SliceTo(all_pebbles, image_stage)) + 1,
                             Len(all_pebbles))
    /\ UNCHANGED <<new_xy, pc, rng, image_shelves, image_background_lines, frame, moves,
                   scales, main>>
DrawAtStage(image_stage) ==
    /\ pc = "idle"
    /\ Drawn(image_stage, draw_at_stage(image_background_lines, image_shelves,
                                        all_pebbles, image_stage))
    /\ UNCHANGED <<new_xy, layout, frame, moves, scales, main>>

----------------------------------------------------------------------------
(* The layout: the constructors, the packer with any arguments, and moves  *)
(* of single pebbles.                                                      *)

Next ==
    \/ \E bottom_start \in BottomStarts, n \in 0..MaxShelves, spacing \in Spacings :
          NewShelves(bottom_start, n, spacing)
    \/ \E n \in 0..MaxPebbles, a \in PebbleArgs : NewPebbleCollection(n, a)
    \/ NewLines(LINES_START_POINT, SmallEndPoint, TRUE)
    \/ \E pps \in 1..MaxPerShelf, g \in Gaps : MoveToShelvesCall(pps, g)
    \/ MoveToShelvesStep
    \/ MoveToShelvesReturn
    \/ \E i \in 1..MaxPebbles, new_pos \in MovePositions : MovePebble(i, new_pos)

Spec == Init /\ [][Next]_vars

----------------------------------------------------------------------------
(* The staged renderer: a composition built and packed as PebbleImage      *)
(* builds it (default pebbles_per_shelf and gap), then drawn at any stage. *)

Stages == (-2)..(MaxPebbles + 1)

NextRender ==
    \/ \E n \in 0..MaxShelves : NewShelves(SHELVES_LOWER_LEFT_POINT, n, SHELVES_VERTICAL_SPACING)
    \/ \E n \in 0..MaxPebbles, a \in PebbleArgs : NewPebbleCollection(n, a)
    \/ \E vertical \in BOOLEAN : NewLines(LINES_START_POINT, SmallEndPoint, vertical)
    \/ MoveToShelvesCall(PEBBLES_PER_SHELF, PEBBLES_ON_SHELF_GAP)
    \/ MoveToShelvesStep
    \/ MoveToShelvesReturn
    \/ \E image_stage \in Stages : DrawAtStage(image_stage)

SpecRender == Init /\ [][NextRender]_vars

----------------------------------------------------------------------------
(* main.py: the image is built as PebbleImage.__init__ builds it, then the *)
(* document is assembled page by page.                                     *)

\* cut_line.draw and month.draw, each as one call
CutLine_draw == <<CanvasOp("CutLine.draw", <<>>, "cut_line", 0)>>
Month_draw(month) == <<CanvasOp("Month.draw", <<>>, "month", month)>>

InitMain == Seeded(MainSeeds)

\* cut_line.draw(...) on the first page, before the loop
MainCutLine ==
    /\ pc = "idle"
    /\ packed
    /\ document = <<>>
    /\ document' = <<CutLine_draw>>
    /\ pc' = "for"
    /\ UNCHANGED <<new_xy, rng, image_shelves, all_pebbles, image_background_lines, frame, moves,
                   pages, scales, main_month, main_image_stage>>

\* the first half of an iteration: showPage, my_image.draw_at_stage
MainImagePage ==
    /\ pc = "for"
    /\ main_month < MONTHS
    /\ main_image_stage' = enumerate_stage(main_month)
    /\ LET ops == draw_at_stage(image_background_lines, image_shelves, all_pebbles,
                                main_image_stage')
       IN  /\ Drawn(main_image_stage', ops)
           /\ document' = Append(document, ops)
    /\ pc' = "month"
    /\ UNCHANGED <<new_xy, rng, image_shelves, all_pebbles, image_background_lines, frame, moves,
                   scales, main_month>>

\* the second half of an iteration: showPage, month.draw; then the next month
MainMonthPage ==
    /\ pc = "month"
    /\ document' = Append(document, Month_draw(main_month))
    /\ main_month' = main_month + 1
    /\ pc' = "for"
    /\ UNCHANGED <<new_xy, rng, image_shelves, all_pebbles, image_background_lines, frame, moves,
                   pages, scales, main_image_stage>>

\* after the loop: showPage, cut_line.draw, save
MainSave ==
    /\ pc = "for"
    /\ main_month >= MONTHS
    /\ document' = Append(document, CutLine_draw)
    /\ pc' = "saved"
    /\ UNCHANGED <<new_xy, rng, image_shelves, all_pebbles, image_background_lines, frame, moves,
                   pages, scales, main_month, main_image_stage>>

NextMain ==
    \/ NewShelves(add_points_elements(IMAGE_LOWER_LEFT_POINT, SHELVES_LOWER_LEFT_POINT),
                  NUMBER_OF_SHELVES, SHELVES_VERTICAL_SPACING)
    \/ NewPebbleCollection(PebbleImage_pebbles, DefaultPebbleArgs)
    \/ NewLines(add_points_elements(IMAGE_LOWER_LEFT_POINT, LINES_START_POINT),
                add_points_elements(IMAGE_LOWER_LEFT_POINT, LINES_END_POINT), TRUE)
    \/ (~packed /\ MoveToShelvesCall(PEBBLES_PER_SHELF, PEBBLES_ON_SHELF_GAP))
    \/ MoveToShelvesStep
    \/ MoveToShelvesReturn
    \/ MainCutLine
    \/ MainImagePage
    \/ MainMonthPage
    \/ MainSave

SpecMain == InitMain /\ [][NextMain]_vars

----------------------------------------------------------------------------
(* Lines.draw step by step on an empty canvas, for a Lines object of any    *)
(* spacing.  The statements of a call run one after the other, so a step    *)
(* that can be taken is taken: weak fairness of the iteration and of the    *)
(* return.  The model stops a loop after MaxLines iterations.               *)

\* Lines(start_point, end_point, spacing, vertical)
NewLinesOf(start_point, end_point, spacing, vertical) ==
    /\ pc = "start"
    /\ image_background_lines' = Lines__init__(start_point, end_point, spacing, vertical)
    /\ pc' = "lines_made"
    /\ UNCHANGED <<new_xy, rng, image_shelves, all_pebbles, frame, moves, pages, scales, main>>

\* Lines.draw up to the loop: the colour, the width, the dash, new_x or new_y
LinesDrawCall ==
    /\ pc = "lines_made"
    /\ document' = <<Lines_draw_setup(image_background_lines)>>
    /\ new_xy' = Lines_start(image_background_lines)
    /\ pc' = "while"
    /\ UNCHANGED <<rng, image_shelves, all_pebbles, image_background_lines, frame, moves,
                   pages, scales, main_month, main_image_stage>>

\* the number of canvas.line calls made so far
LinesDrawn == Len(document[1]) - Len(Lines_draw_setup(image_background_lines))

\* one iteration of the loop: the test holds, canvas.line, new += spacing
LinesDrawStep ==
    /\ pc = "while"
    /\ Lines_while(image_background_lines, new_xy)
    /\ LinesDrawn < MaxLines
    /\ document' = <<Append(document[1],
                            Lines_line(image_background_lines, new_xy, LinesDrawn))>>
    /\ new_xy' = new_xy + image_background_lines.spacing
    /\ UNCHANGED <<pc, rng, image_shelves, all_pebbles, image_background_lines, frame,
                   moves, pages, scales, main_month, main_image_stage>>

\* the test fails: canvas.setDash() and the return
LinesDrawReturn ==
    /\ pc = "while"
    /\ ~Lines_while(image_background_lines, new_xy)
    /\ document' = <<Append(document[1], Lines_draw_reset)>>
    /\ pc' = "drawn"
    /\ UNCHANGED <<new_xy, rng, image_shelves, all_pebbles, image_background_lines, frame,
                   moves, pages, scales, main_month, main_image_stage>>

NextLines ==
    \/ \E end_point \in LinesEndPoints, spacing \in LinesSpacings, vertical \in BOOLEAN :
          NewLinesOf(LinesStartPoint, end_point, spacing, vertical)
    \/ LinesDrawCall
    \/ LinesDrawStep
    \/ LinesDrawReturn

SpecLines ==
    Init /\ [][NextLines]_vars /\ WF_vars(LinesDrawStep) /\ WF_vars(LinesDrawReturn)

----------------------------------------------------------------------------
(* The generator: pebbles built one after the other from one random source *)

NextPebble == \E a \in GeneratorArgs : NewPebble(a)

SpecPebble == Init /\ [][NextPebble]_vars

----------------------------------------------------------------------------
(* Geometry read off the state, for the properties below *)

XsOf(peb) == {peb.zero_points[i][1] : i \in 1..Len(peb.zero_points)}
YsOf(peb) == {peb.zero_points[i][2] : i \in 1..Len(peb.zero_points)}
Least(S) == CHOOSE v \in S : \A w \in S : v <= w
Greatest(S) == CHOOSE v \in S : \A w \in S : v >= w

\* the bounding box of a pebble where it lies now
LeftEdge(peb) == peb.center_coordinates[1] + Least(XsOf(peb))
RightEdge(peb) == peb.center_coordinates[1] + Greatest(XsOf(peb))
BottomEdge(peb) == peb.center_coordinates[2] + Least(YsOf(peb))
WidthOf(peb) == Greatest(XsOf(peb)) - Least(XsOf(peb))

\* the upper left corner of the shelf with 0-based index s
AnchorX(s) == image_shelves.all_shelves[s + 1].start_x
AnchorY(s) == image_shelves.all_shelves[s + 1].start_y
                + image_shelves.all_shelves[s + 1].shelf_height

\* the shelves hold the whole collection
Fits == Len(all_pebbles) <= Len(image_shelves.all_shelves) * pebbles_per_shelf

\* the pebbles (1-based positions) the packer has placed in its last run
PlacedSet == 1..Len(placed)

\* the first pebble (1-based) of the shelf group of pebble k
GroupStart(k) == k - ((k - 1) % pebbles_per_shelf)

\* the sum of width + gap over the pebbles from..(to - 1)
RECURSIVE WidthsAndGaps(_, _)
WidthsAndGaps(from, to) ==
    IF from >= to THEN 0
    ELSE WidthOf(all_pebbles[from]) + gap + WidthsAndGaps(from + 1, to)

\* the 0-based indices of the pebbles a page draws, in drawing order
PebblesDrawn(ops) ==
    LET paths == SelectSeq(ops, LAMBDA o : o.op = "drawPath" /\ o.src = "pebble")
    IN  [i \in 1..Len(paths) |-> paths[i].idx]

IsStrictPrefix(a, b) == Len(a) < Len(b) /\ SubSeq(b, 1, Len(a)) = a

\* the indices 0..(n - 1) in order
FirstIndices(n) == [i \in 1..n |-> i - 1]

----------------------------------------------------------------------------
(* Properties of the packer *)

\* C1: the pebble with index i is placed on the shelf with index
\* i div pebbles_per_shelf: the packer uses that shelf, the bottom of the
\* pebble's bounding box lies on that shelf's upper edge and on no other's.
C1_ShelfByIndex ==
    \A k \in PlacedSet :
        /\ placed[k].peb_num = k - 1
        /\ placed[k].shelf_index = (k - 1) \div pebbles_per_shelf
        /\ \A s \in 0..(Len(image_shelves.all_shelves) - 1) :
              (BottomEdge(all_pebbles[k]) = AnchorY(s)) <=> (s = (k - 1) \div pebbles_per_shelf)

C1_Witness ==
    /\ packed
    /\ pebbles_per_shelf = 3
    /\ Len(all_pebbles) = 4
    /\ placed[1].shelf_index = 0 /\ placed[2].shelf_index = 0
    /\ placed[3].shelf_index = 0 /\ placed[4].shelf_index = 1

\* C2: every placed pebble's center is (shift + upper_left.x - minX,
\* upper_left.y - minY) with the shift the packer had when it placed it,
\* i.e. the lower left corner of its bounding box is the shelf's upper left
\* corner moved right by that shift.
C2_NewCenter ==
    \A k \in PlacedSet :
        LET peb == all_pebbles[k]
            s == (k - 1) \div pebbles_per_shelf
        IN  /\ peb.center_coordinates =
                  <<placed[k].shift + AnchorX(s) - Least(XsOf(peb)),
                    AnchorY(s) - Least(YsOf(peb))>>
            /\ <<LeftEdge(peb), BottomEdge(peb)>> = <<AnchorX(s) + placed[k].shift, AnchorY(s)>>

C2_Witness ==
    /\ packed
    /\ Len(all_pebbles) >= 2
    /\ placed[2].shift > 0
    /\ all_pebbles[2].center_coordinates # all_pebbles[1].center_coordinates
    /\ Least(XsOf(all_pebbles[2])) # -Greatest(XsOf(all_pebbles[2]))

\* C3: the left edge of a placed pebble is the shelf's left edge plus the
\* widths and gaps of the earlier pebbles of its group; the first pebble of
\* a group has shift 0; a later one starts gap right of the previous one's
\* right edge; identical pebbles of width 10 with gap 10 lie at 0, 20, 40.
C3_ShiftWithinGroup ==
    \A k \in PlacedSet :
        LET peb == all_pebbles[k]
            s == (k - 1) \div pebbles_per_shelf
            j == (k - 1) % pebbles_per_shelf
        IN  /\ LeftEdge(peb) = AnchorX(s) + WidthsAndGaps(GroupStart(k), k)
            /\ j = 0 => placed[k].shift = 0 /\ LeftEdge(peb) = AnchorX(s)
            /\ j > 0 => LeftEdge(peb) = RightEdge(all_pebbles[k - 1]) + gap
            /\ (gap = 10000 /\ \A m \in GroupStart(k)..k : WidthOf(all_pebbles[m]) = 10000)
                  => LeftEdge(peb) - AnchorX(s) = 20000 * j

C3_Witness ==
    /\ packed
    /\ pebbles_per_shelf = 3
    /\ gap = 10000
    /\ Len(all_pebbles) = 4
    /\ \A k \in 1..4 : WidthOf(all_pebbles[k]) = 10000
    /\ LeftEdge(all_pebbles[1]) = AnchorX(0)
    /\ LeftEdge(all_pebbles[2]) = AnchorX(0) + 20000
    /\ LeftEdge(all_pebbles[3]) = AnchorX(0) + 40000
    /\ LeftEdge(all_pebbles[4]) = AnchorX(1)

\* C4: (for pebbles_per_shelf >= 1) move_to_shelves ends in an IndexError
\* exactly when the collection does not fit: it fails only if
\* len(pebbles) > len(shelves) * pebbles_per_shelf, then at the first index
\* past the capacity, and a run on such a collection never gets further;
\* a run that returns was on a collection that fits.
C4_FailsIffOverCapacity ==
    /\ pc = "IndexError" =>
          /\ ~Fits
          /\ peb_num = Len(image_shelves.all_shelves) * pebbles_per_shelf
    /\ (pc = "moving" /\ ~Fits) =>
          peb_num <= Len(image_shelves.all_shelves) * pebbles_per_shelf
    /\ (pc = "moving" /\ peb_num = Len(all_pebbles)) => Fits
    /\ packed => Fits

C4_Witness ==
    /\ pc = "IndexError"
    /\ Len(image_shelves.all_shelves) = 1
    /\ pebbles_per_shelf = 3
    /\ Len(all_pebbles) = 4
    /\ Len(placed) = 3

\* a pebble without its position
ShapeOf(peb) == [peb EXCEPT !.center_coordinates = <<0, 0>>]

\* C5: a move changes only center_coordinates: in every step after the
\* collection is built each pebble keeps its zero_points, angles, rx, ry,
\* ran_k, k and colour, and center_distances and measures return what they
\* returned before the step.
C5_MoveChangesOnlyCenter ==
    [][pc # "shelves" =>
          /\ Len(all_pebbles') = Len(all_pebbles)
          /\ \A i \in 1..Len(all_pebbles) :
                /\ ShapeOf(all_pebbles'[i]) = ShapeOf(all_pebbles[i])
                /\ center_distances(all_pebbles'[i]) = center_distances(all_pebbles[i])
                /\ measures(all_pebbles'[i]) = measures(all_pebbles[i])]_vars

C5_Witness ==
    /\ moves > 0
    /\ packed = FALSE
    /\ \E i \in 1..Len(all_pebbles) :
          /\ all_pebbles[i].center_coordinates = <<100000, 50000>>
          /\ WidthOf(all_pebbles[i]) > 0

\* the center of pebble k (1-based) after a run, from the bounding minima,
\* the widths, the shelves' upper left corners, pebbles_per_shelf and gap
RECURSIVE PackedX(_, _, _, _, _, _)
PackedX(k, minXs, widths, anchors, pps, g) ==
    IF (k - 1) % pps = 0 THEN anchors[((k - 1) \div pps) + 1][1] - minXs[k]
    ELSE PackedX(k - 1, minXs, widths, anchors, pps, g) + minXs[k - 1]
         + widths[k - 1] + g - minXs[k]

PackedCenter(k, minXs, minYs, widths, anchors, pps, g) ==
    <<PackedX(k, minXs, widths, anchors, pps, g),
      anchors[((k - 1) \div pps) + 1][2] - minYs[k]>>

\* C10: the packer is a function of the bounding extents, the measures, the
\* shelves, pebbles_per_shelf and gap alone: after a complete run every
\* center is what PackedCenter gives from those, whatever the centers were
\* before the run and whatever the state of the random source.
C10_Deterministic ==
    packed =>
        LET minXs == [k \in 1..Len(all_pebbles) |-> Least(XsOf(all_pebbles[k]))]
            minYs == [k \in 1..Len(all_pebbles) |-> Least(YsOf(all_pebbles[k]))]
            widths == [k \in 1..Len(all_pebbles) |-> WidthOf(all_pebbles[k])]
            anchors == [s \in 1..Len(image_shelves.all_shelves) |->
                           <<AnchorX(s - 1), AnchorY(s - 1)>>]
        IN  \A k \in 1..Len(all_pebbles) :
                all_pebbles[k].center_coordinates =
                    PackedCenter(k, minXs, minYs, widths, anchors, pebbles_per_shelf, gap)

C10_Witness ==
    /\ packed
    /\ moves > 0
    /\ rng # 0
    /\ Len(all_pebbles) = 4
    /\ pebbles_per_shelf = 2

\* C13: in a run of move_to_shelves on a collection that fits the shelves,
\* the loop starts at index 0, every iteration writes the center of the
\* pebble with the current index and of no other and goes on to the next
\* index, and the run returns after the last index; no step of the run
\* changes a shelf, a field of a pebble other than its center, or the
\* order or the length of the collection.
C13_WritesOnceInOrder ==
    [][((pc = "moving" \/ pc' = "moving") /\ Fits')
          => /\ image_shelves' = image_shelves
             /\ Len(all_pebbles') = Len(all_pebbles)
             /\ \A i \in 1..Len(all_pebbles) :
                    ShapeOf(all_pebbles'[i]) = ShapeOf(all_pebbles[i])
             /\ pc = "idle"
                    => /\ peb_num' = 0
                       /\ placed' = <<>>
                       /\ all_pebbles' = all_pebbles
             /\ (pc = "moving" /\ pc' = "moving")
                    => /\ peb_num' = peb_num + 1
                       /\ Len(placed') = Len(placed) + 1
                       /\ placed'[Len(placed')].peb_num = peb_num
                       /\ all_pebbles'[peb_num + 1].center_coordinates
                             = placed'[Len(placed')].new_pos
                       /\ \A i \in 1..Len(all_pebbles) :
                              i # peb_num + 1 => all_pebbles'[i] = all_pebbles[i]
             /\ (pc = "moving" /\ pc' # "moving")
                    => /\ pc' = "idle"
                       /\ peb_num = Len(all_pebbles)
                       /\ Len(placed) = Len(all_pebbles)
                       /\ \A k \in 1..Len(all_pebbles) : placed[k].peb_num = k - 1
                       /\ all_pebbles' = all_pebbles]_vars

C13_Witness ==
    /\ pc = "idle"
    /\ packed
    /\ Len(all_pebbles) = 3
    /\ Len(image_shelves.all_shelves) = 2
    /\ Len(placed) = 3
    /\ placed[3].peb_num = 2
    /\ all_pebbles[3].center_coordinates = placed[3].new_pos

\* the difference of two points
Minus(a, b) == <<a[1] - b[1], a[2] - b[2]>>

\* C14: in every state the i-th point Pebble.points returns is
\* center_coordinates + zero_points[i]; every step that moves a pebble from
\* center c to center c' shifts each of its four corner points by c' - c
\* and leaves the offsets between its corner points as they were.
C14_PointsFollowCenter ==
    [][\A i \in 1..Len(all_pebbles') :
          LET new == all_pebbles'[i]
              new_points == points(new)
          IN  /\ Len(new_points) = 4
              /\ \A j \in 1..4 :
                    new_points[j] = <<new.center_coordinates[1] + new.zero_points[j][1],
                                     new.center_coordinates[2] + new.zero_points[j][2]>>
              /\ (pc \in {"idle", "moving"} /\ all_pebbles[i] # new)
                    => LET old == all_pebbles[i]
                           old_points == points(old)
                           delta == Minus(new.center_coordinates, old.center_coordinates)
                       IN  /\ \A j \in 1..4 : Minus(new_points[j], old_points[j]) = delta
                           /\ \A j, k \in 1..4 :
                                 Minus(new_points[j], new_points[k])
                                    = Minus(old_points[j], old_points[k])]_vars

C14_Witness ==
    /\ pc = "idle"
    /\ moves = 1
    /\ \E i \in 1..Len(all_pebbles) :
          /\ all_pebbles[i].center_coordinates = <<100000, 50000>>
          /\ all_pebbles[i].zero_points[1][1] > 0
          /\ points(all_pebbles[i])[1][1] = 100000 + all_pebbles[i].zero_points[1][1]
          /\ points(all_pebbles[i])[2][2] = 50000 + all_pebbles[i].zero_points[2][2]

\* the centers of all pebbles, in collection order
Centers == [i \in 1..Len(all_pebbles) |-> all_pebbles[i].center_coordinates]

\* C18: while move_to_shelves runs for the second time in a row with the
\* same shelves, pebbles_per_shelf and gap, every pebble, written again or
\* not yet, has the center the first run gave it; so have all pebbles when
\* the second run has written the last one.
C18_Idempotent ==
    (rerun /\ pc = "moving") => Centers = centers_before

C18_Witness ==
    /\ rerun
    /\ pc = "moving"
    /\ Len(all_pebbles) = 3
    /\ peb_num = Len(all_pebbles)
    /\ Len(placed) = 3
    /\ pebbles_per_shelf = 2
    /\ Centers = centers_before
    /\ all_pebbles[3].center_coordinates = placed[3].new_pos
    /\ all_pebbles[2].center_coordinates # all_pebbles[1].center_coordinates

\* the capacity of the shelves
Capacity == Len(image_shelves.all_shelves) * pebbles_per_shelf

\* C19: when move_to_shelves has ended in an IndexError, every pebble with
\* index < len(shelves) * pebbles_per_shelf is at the position the packer
\* gave it on its shelf, and every pebble from the failing index on has
\* the center it had when move_to_shelves was called.
C19_NoRollback ==
    pc = "IndexError"
       => /\ peb_num = Capacity
          /\ Len(placed) = Capacity
          /\ \A k \in 1..Len(all_pebbles) :
                IF k - 1 < Capacity
                THEN LET c == all_pebbles[k].center_coordinates
                         s == (k - 1) \div pebbles_per_shelf
                     IN  /\ c = placed[k].new_pos
                         /\ c[1] + Least(XsOf(all_pebbles[k]))
                               = AnchorX(s) + placed[k].shift
                         /\ c[2] + Least(YsOf(all_pebbles[k]))
                               = AnchorY(s)
                ELSE all_pebbles[k].center_coordinates = centers_before[k]

C19_Witness ==
    /\ pc = "IndexError"
    /\ Capacity = 2
    /\ Len(all_pebbles) = 4
    /\ moves = 1
    /\ all_pebbles[1].center_coordinates # centers_before[1]
    /\ all_pebbles[4].center_coordinates = <<100000, 50000>>
    /\ centers_before[4] = <<100000, 50000>>

----------------------------------------------------------------------------
(* Properties of the shelf layout *)

\* C9: Shelves(bottom_start, n, spacing) holds exactly n shelves, shelf i
\* (0-based) at bottom_start + (0, i * spacing), all with the same x;
\* n = 0 gives an empty layout.
C9_ShelvesLayout ==
    pc # "start" =>
        /\ Len(image_shelves.all_shelves) = image_shelves.n
        /\ \A i \in 0..(image_shelves.n - 1) :
              /\ image_shelves.all_shelves[i + 1].start_x = image_shelves.bottom_start_x
              /\ image_shelves.all_shelves[i + 1].start_y
                    = image_shelves.bottom_start_y + i * image_shelves.spacing
        /\ image_shelves.n = 0 => image_shelves.all_shelves = <<>>

C9_Witness ==
    /\ pc = "shelves"
    /\ image_shelves.n = 2
    /\ image_shelves.spacing = 30000
    /\ image_shelves.all_shelves[2].start_y = 46800 + 30000
    /\ image_shelves.all_shelves[2].start_x = 36000

----------------------------------------------------------------------------
(* Properties of the staged renderer, under SpecRender *)

\* a step in which draw_at_stage put a new page on the canvas
NewPage == last_page' # last_page

\* C6 as stated: for every stage count s, draw_at_stage(s) draws a strict
\* prefix of what draw_at_stage(s + 1) draws (taken in its most favourable
\* case: s >= 0 and a collection that is not empty).
C6_StrictPrefixAlways ==
    [][(/\ NewPage
        /\ last_page # <<>>
        /\ Len(all_pebbles) > 0
        /\ last_page[1].stage >= 0
        /\ last_page'[1].stage = last_page[1].stage + 1)
       => IsStrictPrefix(PebblesDrawn(last_page[1].ops), PebblesDrawn(last_page'[1].ops))]_vars

\* C6 amended: for 0 <= s < total, draw_at_stage(s) draws a strict prefix of
\* draw_at_stage(s + 1), which draws exactly one pebble more; for
\* s >= total both draw all the pebbles, the same sequence.
C6_StrictPrefixBelowTotal ==
    [][(/\ NewPage
        /\ last_page # <<>>
        /\ last_page[1].stage >= 0
        /\ last_page'[1].stage = last_page[1].stage + 1)
       => LET before == PebblesDrawn(last_page[1].ops)
              after == PebblesDrawn(last_page'[1].ops)
          IN  IF last_page[1].stage < Len(all_pebbles)
              THEN IsStrictPrefix(before, after) /\ Len(after) = Len(before) + 1
              ELSE after = before /\ Len(after) = Len(all_pebbles)]_vars

C6_Witness ==
    /\ first_page # <<>>
    /\ first_page[1].stage = 2
    /\ last_page[1].stage = 3
    /\ Len(all_pebbles) = 4
    /\ PebblesDrawn(first_page[1].ops) = <<0, 1>>
    /\ PebblesDrawn(last_page[1].ops) = <<0, 1, 2>>

\* C7: draw_at_stage(stage), stage >= 0, draws exactly the first stage
\* pebbles in collection order: none for 0, all for total, and all for any
\* stage beyond total.
C7_DrawsFirstStagePebbles ==
    (last_page # <<>> /\ last_page[1].stage >= 0) =>
        LET drawn == PebblesDrawn(last_page[1].ops)
            stage == last_page[1].stage
        IN  /\ stage <= Len(all_pebbles) => drawn = FirstIndices(stage)
            /\ stage >= Len(all_pebbles) => drawn = FirstIndices(Len(all_pebbles))
            /\ stage = 0 => drawn = <<>>

C7_Witness ==
    /\ last_page # <<>>
    /\ Len(all_pebbles) = 3
    /\ last_page[1].stage = 5
    /\ PebblesDrawn(last_page[1].ops) = <<0, 1, 2>>

\* C21: a negative stage count -k is not clamped at zero: the page drawn
\* with it shows the first total - k pebbles if k < total and no pebble if
\* k >= total; for every stage count, negative or not, the slice
\* all_pebbles[:stage] is defined and is a prefix of the collection.
C21_NegativeStageCountsFromEnd ==
    /\ (last_page # <<>> /\ last_page[1].stage < 0)
          => LET drawn == PebblesDrawn(last_page[1].ops)
                 k == -last_page[1].stage
                 total == Len(all_pebbles)
             IN  /\ k < total => drawn = FirstIndices(total - k)
                 /\ k >= total => drawn = <<>>
    /\ \A image_stage \in Stages :
          LET slice == SliceTo(all_pebbles, image_stage)
          IN  /\ Len(slice) \in 0..Len(all_pebbles)
              /\ slice = SubSeq(all_pebbles, 1, Len(slice))

C21_Witness ==
    /\ last_page # <<>>
    /\ first_page # <<>>
    /\ last_page[1].stage = -2
    /\ Len(all_pebbles) = 4
    /\ PebblesDrawn(last_page[1].ops) = <<0, 1>>
    /\ first_page[1].stage = -2
    /\ Len(all_pebbles) <= 2 * Len(PebblesDrawn(first_page[1].ops))

\* C8: draw_at_stage changes nothing of the composition (no pebble, shelf
\* or line attribute, nor the random source), and a call with the stage
\* count of an earlier call issues the same drawing operations as that
\* call, whatever stages were drawn in between.
C8_DrawIsPure ==
    [][NewPage =>
          /\ UNCHANGED <<new_xy, all_pebbles, image_shelves, image_background_lines, rng>>
          /\ (first_page # <<>> /\ first_page[1].stage = last_page'[1].stage)
                => last_page'[1].ops = first_page[1].ops]_vars

C8_Witness ==
    /\ first_page # <<>>
    /\ interleaved
    /\ last_page = first_page
    /\ first_page[1].stage = 2
    /\ Len(all_pebbles) = 4
    /\ packed

----------------------------------------------------------------------------
(* Properties of the pebble generator, under SpecPebble *)

\* the pebbles built from the ranges (20,20), (12,12), (0,0), (1,1)
ExactPebbles ==
    {i \in 1..Len(all_pebbles) :
        /\ all_pebbles[i].rx_range = <<20, 20>>
        /\ all_pebbles[i].ry_range = <<12, 12>>
        /\ all_pebbles[i].k_add = <<0, 0>>
        /\ all_pebbles[i].randomize_zero_points_by = <<1000, 1000>>}

NoResidue == [i \in 1..4 |-> <<0, 0>>]

\* C11 as stated: a pebble generated with rx_range = (20,20), ry_range =
\* (12,12), k_add = (0,0) and randomize_zero_points_by = (1,1) has zero
\* points exactly (20,0), (0,12), (-20,0), (0,-12) and measures (40,24).
C11_ExactZeroPoints ==
    \A i \in ExactPebbles :
        /\ all_pebbles[i].zero_points
               = <<<<20000, 0>>, <<0, 12000>>, <<-20000, 0>>, <<0, -12000>>>>
        /\ all_pebbles[i].zero_points_residue = NoResidue
        /\ measures(all_pebbles[i]) = <<40000, 24000>>

\* C11 amended: such a pebble has the zero points (20,0), (0,12), (-20,0),
\* (0,-12) up to float residues below 1e-14 in the coordinates stated as 0
\* at the angles pi/2, pi and 3pi/2 (1.2e-15, 1.5e-15 and -3.7e-15); the
\* coordinates 20, 12, -20, -12 and the measures (40,24) are exact.
C11_ZeroPointsUpToResidue ==
    \A i \in ExactPebbles :
        /\ all_pebbles[i].zero_points
               = <<<<20000, 0>>, <<0, 12000>>, <<-20000, 0>>, <<0, -12000>>>>
        /\ all_pebbles[i].zero_points_residue
               = <<<<0, 0>>, <<122460, 0>>, <<0, 146952>>, <<-367400, 0>>>>
        /\ WidthOf(all_pebbles[i]) = 40000
        /\ Greatest(YsOf(all_pebbles[i])) - Least(YsOf(all_pebbles[i])) = 24000
        /\ measures(all_pebbles[i]) = <<40000, 24000>>

C11_Witness ==
    \E i \in ExactPebbles :
        /\ i > 1
        /\ all_pebbles[i].rx = 20
        /\ all_pebbles[i].ry = 12
        /\ all_pebbles[i].zero_points[2] = <<0, 12000>>

\* the pebble built last, and the scale factors its construction drew
LastPebble == all_pebbles[Len(all_pebbles)]

\* C12 as stated: for each of the 4 angles one scale factor s is drawn and
\* scales both coordinates of the corner, so that generating a pebble takes
\* exactly 4 position-jitter draws.
C12_OneScalePerCorner ==
    (pc = "start" /\ all_pebbles # <<>>)
       => /\ Len(scales) = 4
          /\ \A i \in 1..4 :
                LastPebble.zero_points[i]
                   = <<LastPebble.rx * cos(Pebble_angles[i]) * scales[i],
                       LastPebble.ry * sin(Pebble_angles[i]) * scales[i]>>

\* C12 amended: for each of the 4 angles two scale factors are drawn, the
\* first scales the x coordinate of the corner and the second its y
\* coordinate, so that generating a pebble takes exactly 8 position-jitter
\* draws.
C12_TwoScalesPerCorner ==
    (pc = "start" /\ all_pebbles # <<>>)
       => /\ Len(scales) = 2 * 4
          /\ \A i \in 1..4 :
                /\ LastPebble.zero_points[i]
                      = <<LastPebble.rx * cos(Pebble_angles[i]) * scales[2 * i - 1],
                          LastPebble.ry * sin(Pebble_angles[i]) * scales[2 * i]>>
                /\ LastPebble.zero_points_residue[i]
                      = <<(LastPebble.rx * cos_residue(Pebble_angles[i]) * scales[2 * i - 1])
                              \div 1000,
                          (LastPebble.ry * sin_residue(Pebble_angles[i]) * scales[2 * i])
                              \div 1000>>

C12_Witness ==
    /\ pc = "start"
    /\ Len(all_pebbles) > 1
    /\ Len(scales) = 8
    /\ scales[3] # scales[4]
    /\ LastPebble.zero_points[2][2] = LastPebble.ry * scales[4]
    /\ LastPebble.zero_points[2][2] # LastPebble.ry * scales[3]

----------------------------------------------------------------------------
(* Properties of the drawing order and of the path of a pebble, under      *)
(* SpecRender                                                              *)

\* the layer of a canvas call: the background, the shelves, the pebbles
Layer(o) == IF o.src = "lines" THEN 1 ELSE IF o.src = "shelf" THEN 2 ELSE 3

\* the calls of ops that have the name op and come from src
CallsOf(ops, op, src) == SelectSeq(ops, LAMBDA o : o.op = op /\ o.src = src)

\* C15: in the calls of one draw_at_stage, whatever the stage, no call of a
\* later layer comes before a call of an earlier one (background lines,
\* then shelves, then pebbles); there is one rectangle for every shelf, in
\* layout order; the pebbles drawn are filled in collection order.
C15_LinesShelvesPebbles ==
    last_page # <<>>
       => LET ops == last_page[1].ops
              rects == CallsOf(ops, "rect", "shelf")
              paths == CallsOf(ops, "drawPath", "pebble")
              fills == CallsOf(ops, "setFillColorCMYK", "pebble")
              lines == CallsOf(ops, "line", "lines")
          IN  /\ \A a, b \in 1..Len(ops) : a < b => Layer(ops[a]) <= Layer(ops[b])
              /\ Len(lines) > 0
              /\ Len(rects) = Len(image_shelves.all_shelves)
              /\ \A k \in 1..Len(rects) :
                    /\ rects[k].idx = k - 1
                    /\ rects[k].args[1] = image_shelves.all_shelves[k].start_x
                    /\ rects[k].args[2] = image_shelves.all_shelves[k].start_y
              /\ Len(fills) = Len(paths)
              /\ Len(paths) <= Len(all_pebbles)
              /\ \A k \in 1..Len(paths) :
                    /\ paths[k].idx = k - 1
                    /\ fills[k].idx = k - 1
                    /\ fills[k].args = all_pebbles[k].cmyk_color

C15_Witness ==
    /\ last_page # <<>>
    /\ last_page[1].stage = 2
    /\ Len(image_shelves.all_shelves) = 2
    /\ Len(CallsOf(last_page[1].ops, "line", "lines")) >= 2
    /\ Len(CallsOf(last_page[1].ops, "rect", "shelf")) = 2
    /\ Len(CallsOf(last_page[1].ops, "drawPath", "pebble")) = 2
    /\ all_pebbles[1].cmyk_color # all_pebbles[2].cmyk_color

\* the calls of ops that draw the pebble with 0-based index idx
PathOf(ops, idx) == SelectSeq(ops, LAMBDA o : o.src = "pebble" /\ o.idx = idx)

\* C16: the calls Pebble.draw makes are beginPath, setFillColorCMYK, one
\* moveTo to corner point 0, four curveTo and drawPath; the curveTo with
\* number i = 0..3 has the i-th control pair of curve_controls and ends at
\* corner point (i + 1) mod 4, the last one at the point of the moveTo.
C16_ClosedPathOfFour ==
    (last_page # <<>> /\ first_page # <<>>)
       => \A idx \in 0..(Len(all_pebbles) - 1) :
             LET path == PathOf(last_page[1].ops, idx)
                 peb == all_pebbles[idx + 1]
                 corner == points(peb)
             IN  path # <<>>
                    => /\ [j \in 1..Len(path) |-> path[j].op]
                             = <<"beginPath", "setFillColorCMYK", "moveTo",
                                 "curveTo", "curveTo", "curveTo", "curveTo", "drawPath">>
                       /\ path[3].args = corner[1]
                       /\ \A i \in 0..3 :
                             /\ SubSeq(path[4 + i].args, 1, 4) = curve_controls(peb)[i + 1]
                             /\ SubSeq(path[4 + i].args, 5, 6) = corner[((i + 1) % 4) + 1]
                       /\ SubSeq(path[7].args, 5, 6) = path[3].args

C16_Witness ==
    /\ last_page # <<>>
    /\ first_page # <<>>
    /\ packed
    /\ last_page[1].stage = 2
    /\ Len(PathOf(last_page[1].ops, 1)) = 8
    /\ PathOf(last_page[1].ops, 1)[3].args = points(all_pebbles[2])[1]
    /\ SubSeq(PathOf(last_page[1].ops, 1)[7].args, 5, 6) = points(all_pebbles[2])[1]
    /\ points(all_pebbles[2])[1] # points(all_pebbles[2])[3]

----------------------------------------------------------------------------
(* Properties of the document assembly and of the default image, under     *)
(* SpecMain                                                                *)

\* the image pages the loop has emitted so far
ImagePagesDone == IF pc = "month" THEN main_month + 1 ELSE main_month

\* C17: the document is the page of the cut line, then for every month in
\* order one image page followed by that month's calendar page; the image
\* page of the m-th month (m = 1, 2, ..., 12) comes from one draw_at_stage
\* call with stage count m and shows the first m pebbles, one more than
\* the page before; the last stage count is num_of_stages, the number of
\* pebbles of the collection.
C17_OnePagePairPerStage ==
    document # <<>>
       => /\ document[1] = CutLine_draw
          /\ Len(document) = 1 + ImagePagesDone + main_month + (IF pc = "saved" THEN 1 ELSE 0)
          /\ \A m \in 1..ImagePagesDone :
                /\ document[2 * m][1].src = "lines"
                /\ PebblesDrawn(document[2 * m]) = FirstIndices(m)
                /\ m <= num_of_stages(all_pebbles)
          /\ \A m \in 1..main_month : document[2 * m + 1] = Month_draw(m - 1)
          /\ pc = "month"
                => /\ main_image_stage = main_month + 1
                   /\ last_page = <<[stage |-> main_image_stage,
                                      ops |-> document[Len(document)]]>>
          /\ pc = "saved"
                => /\ main_month = 12
                   /\ main_image_stage = 12
                   /\ main_image_stage = num_of_stages(all_pebbles)
                   /\ num_of_stages(all_pebbles) = Len(all_pebbles)
                   /\ document[Len(document)] = CutLine_draw

C17_Witness ==
    /\ pc = "saved"
    /\ Len(document) = 26
    /\ PebblesDrawn(document[2]) = <<0>>
    /\ PebblesDrawn(document[24]) = FirstIndices(12)
    /\ document[25] = Month_draw(11)
    /\ last_page[1].stage = 12

\* C20: with the defaults of PebbleImage (12 pebbles, 4 shelves, 3 pebbles
\* per shelf) the packer never asks for a shelf that does not exist and
\* never ends in an IndexError; when it has returned, each of the 4 shelves
\* carries exactly 3 pebbles and num_of_stages is 12.
C20_DefaultsFit ==
    /\ pc # "IndexError"
    /\ (pc = "moving" /\ peb_num < Len(all_pebbles))
          => peb_num \div pebbles_per_shelf < Len(image_shelves.all_shelves)
    /\ packed
          => /\ Len(image_shelves.all_shelves) = 4
             /\ pebbles_per_shelf = 3
             /\ Len(all_pebbles) = 12
             /\ num_of_stages(all_pebbles) = 12
             /\ Len(placed) = 12
             /\ \A s \in 0..3 :
                   Cardinality({k \in 1..12 : /\ placed[k].shelf_index = s
                                              /\ BottomEdge(all_pebbles[k]) = AnchorY(s)}) = 3

C20_Witness ==
    /\ pc = "idle"
    /\ packed
    /\ document = <<>>
    /\ Len(placed) = 12
    /\ placed[12].shelf_index = 3
    /\ placed[10].shift = 0
    /\ BottomEdge(all_pebbles[12]) = AnchorY(3)

----------------------------------------------------------------------------
(* Properties of Lines.draw, under SpecLines *)

\* the canvas.line calls of the call of Lines.draw in progress or complete
LinesOf(page) == SelectSeq(page, LAMBDA o : o.op = "line")

====
